---- MODULE Spec2Model ----
(***************************************************************************)
(* Model of compress_video.py: two-pass compression to a target size with  *)
(* a fallback that extracts highlight clips.                                *)
(*                                                                         *)
(* The external media engine (ffmpeg.probe / ffmpeg.run) is the            *)
(* environment: every call either succeeds or raises, chosen               *)
(* nondeterministically.  Every call is recorded in `calls`.               *)
(*                                                                         *)
(* Python floats are modelled as exact rationals [n, d] (d > 0, lowest     *)
(* terms).  The inputs used here have small denominators, for which the    *)
(* truncations and comparisons of the program agree with exact arithmetic. *)
(* The probe is taken to report a duration > 0 (the division by the        *)
(* duration is otherwise an error outside the scope of this model).        *)
(***************************************************************************)
EXTENDS Integers, Sequences, FiniteSets, TLC

(* ---------------------------------------------------------------------- *)
(* Bounds of the model                                                     *)
(* ---------------------------------------------------------------------- *)
\* largest num_clips with which create_highlight_clips is called directly
MaxClips == 4
\* short durations are k/2 seconds for k in 1..MaxHalfSeconds
MaxHalfSeconds == 3

(* ---------------------------------------------------------------------- *)
(* Program constants                                                       *)
(* ---------------------------------------------------------------------- *)
BitsPerMB == 8388608
BytesPerMB == 1048576
MaxAudioBitrate == 128000
min_acceptable_bitrate == 200000
MaxClipSeconds == 30
DefaultNumClips == 3
PassLogs == {"ffmpeg2pass-0.log", "ffmpeg2pass-0.log.mbtree"}

(* ---------------------------------------------------------------------- *)
(* Exact rational arithmetic standing for Python float arithmetic          *)
(* ---------------------------------------------------------------------- *)
Abs(x) == IF x < 0 THEN -x ELSE x

RECURSIVE GCD(_, _)
GCD(a, b) == IF b = 0 THEN a ELSE GCD(b, a % b)

Rat(n, d) ==
    LET g == GCD(Abs(n), d) IN [n |-> n \div g, d |-> d \div g]

RInt(k) == [n |-> k, d |-> 1]

RAdd(a, b) ==
    LET g == GCD(a.d, b.d)
    IN  Rat(a.n * (b.d \div g) + b.n * (a.d \div g), (a.d \div g) * b.d)

RSub(a, b) ==
    LET g == GCD(a.d, b.d)
    IN  Rat(a.n * (b.d \div g) - b.n * (a.d \div g), (a.d \div g) * b.d)

RMul(a, b) ==
    LET g1 == GCD(Abs(a.n), b.d)
        g2 == GCD(Abs(b.n), a.d)
    IN  Rat((a.n \div g1) * (b.n \div g2), (a.d \div g2) * (b.d \div g1))

\* a / b for b # 0
RDiv(a, b) ==
    RMul(a, IF b.n > 0 THEN [n |-> b.d, d |-> b.n] ELSE [n |-> -b.d, d |-> -b.n])

RLe(a, b) ==
    LET g == GCD(a.d, b.d) IN a.n * (b.d \div g) <= b.n * (a.d \div g)

RLt(a, b) == ~RLe(b, a)

RMin(a, b) == IF RLe(a, b) THEN a ELSE b

RMax(a, b) == IF RLe(b, a) THEN a ELSE b

\* Python int(x): truncation toward zero
Trunc(a) == IF a.n >= 0 THEN a.n \div a.d ELSE -((-a.n) \div a.d)

IMin(a, b) == IF a <= b THEN a ELSE b

(* ---------------------------------------------------------------------- *)
(* Inputs                                                                  *)
(* ---------------------------------------------------------------------- *)
\* --target-size is any int; 50 is the default.  (39 MB, 7361/5 s) plans a
\* video bitrate of exactly 200000 bps and (43 MB, 8116/5 s) one of 199999.
TargetSizes == {-1, 0, 1, 39, 43, 50}

Durations ==
    {Rat(k, 2) : k \in 1..MaxHalfSeconds}
    \cup {RInt(90), RInt(120), RInt(600), RInt(36000), Rat(7361, 5), Rat(8116, 5)}

(* ---------------------------------------------------------------------- *)
(* Bitrate planning                                                        *)
(* ---------------------------------------------------------------------- *)
\* a split that forgets the 128000 cap on the audio bitrate
SplitBitrate_NoCap(total) ==
    LET audio == total \div 10
    IN  [total |-> total, audio |-> audio, video |-> total - audio]

\* lines 42-43 and 124-125: audio = min(128000, total // 10);
\* video = total - audio
SplitBitrate(total) ==
    LET audio == IMin(MaxAudioBitrate, total \div 10)
    IN  [total |-> total, audio |-> audio, video |-> total - audio]

\* compress_video_to_target_size, lines 38-43
PlanFull(duration, target_size_mb) ==
    LET target_size_bits == target_size_mb * BitsPerMB
        target_total_bitrate == Trunc(RDiv(RInt(target_size_bits), duration))
    IN  SplitBitrate(target_total_bitrate)

\* lines 47-49: the quality floor, with the boundary on the wrong side
TooLow_Inclusive(video_bitrate) == video_bitrate <= min_acceptable_bitrate

\* lines 46-47: video_bitrate < min_acceptable_bitrate
TooLow(video_bitrate) == video_bitrate < min_acceptable_bitrate

\* a clip length that forgets to divide by the number of clips
ClipDuration_Whole(duration, num_clips) ==
    RMin(RInt(MaxClipSeconds), duration)

\* create_highlight_clips, line 108
ClipDuration(duration, num_clips) ==
    RMin(RInt(MaxClipSeconds), RDiv(duration, RInt(num_clips)))

\* a start time that spaces the clips over num_clips slots
RawStartTime_Segments(duration, num_clips, i) ==
    RSub(RMul(RDiv(duration, RInt(num_clips)), RInt(i + 1)),
         RDiv(ClipDuration(duration, num_clips), RInt(2)))

\* create_highlight_clips, line 113 (before the clamp)
RawStartTime(duration, num_clips, i) ==
    RSub(RMul(RDiv(duration, RInt(num_clips + 1)), RInt(i + 1)),
         RDiv(ClipDuration(duration, num_clips), RInt(2)))

\* a start time that subtracts the whole clip length instead of half of it
StartTime_NoHalf(duration, num_clips, i) ==
    RMax(RInt(0), RSub(RawStartTime(duration, num_clips, i),
                       RDiv(ClipDuration(duration, num_clips), RInt(2))))

\* create_highlight_clips, lines 113-114
StartTime(duration, num_clips, i) ==
    RMax(RInt(0), RawStartTime(duration, num_clips, i))

\* create_highlight_clips, lines 122-125
PlanClip(duration, target_size_mb, num_clips) ==
    LET target_bits == RDiv(RInt(target_size_mb * BitsPerMB), RInt(num_clips))
        clip_bitrate == Trunc(RDiv(target_bits, ClipDuration(duration, num_clips)))
    IN  SplitBitrate(clip_bitrate)

\* a size check that rejects a file of exactly the tolerated size
MeetsTarget_Strict(size_bytes, target_size_mb) ==
    RLt(Rat(size_bytes, BytesPerMB), RMul(RInt(target_size_mb), Rat(11, 10)))

\* main, lines 174 and 178: actual_size <= args.target_size * 1.1
MeetsTarget(size_bytes, target_size_mb) ==
    RLe(Rat(size_bytes, BytesPerMB), RMul(RInt(target_size_mb), Rat(11, 10)))

\* a main that always tries the compression first
EntryPoint_IgnoreFlag(only_clips) == "compress_probe"

\* main, lines 167 and 186: --clips-only goes straight to the clips
EntryPoint(only_clips) ==
    IF ~only_clips THEN "compress_probe" ELSE "clips_probe"

\* a main that stops when the compression did not succeed
AfterCompress_Stop(ret, size_bytes, target_size_mb) ==
    IF ret = "True" /\ ~MeetsTarget(size_bytes, target_size_mb)
    THEN "clips_probe" ELSE "done"

\* main, lines 172-186: done when compressed within tolerance, else clips
AfterCompress(ret, size_bytes, target_size_mb) ==
    IF ret = "True" /\ MeetsTarget(size_bytes, target_size_mb)
    THEN "done" ELSE "clips_probe"

\* a loop that stops at the first clip that fails
LoopEnds_OnFailure(ok, attempted, n) == attempted = n \/ ~ok

\* lines 112 and 143-146: the loop runs over range(num_clips) whatever the
\* outcome of a clip
LoopEnds(ok, attempted, n) == attempted = n

\* sizes the encoder may leave for the compressed file: around the tolerance
SizeCandidates(target_size_mb) ==
    LET limit == (target_size_mb * 11 * BytesPerMB) \div 10
    IN  {s \in {BytesPerMB, limit - 1, limit, limit + 1} : s >= 0}

(* ---------------------------------------------------------------------- *)
(* State                                                                   *)
(* ---------------------------------------------------------------------- *)
VARIABLES
    pc,             \* position of the run
    input_exists,   \* input_path.exists()
    clips_only,     \* args.clips_only
    target_size,    \* args.target_size
    num_clips,      \* num_clips of create_highlight_clips
    file_duration,  \* duration the engine reports when a probe succeeds
    info,           \* info of the running function: "None" or [duration]
    plan,           \* bitrates computed by compress_video_to_target_size
    planned,        \* "none" | "accepted" | "rejected"
    compress_ret,   \* "none" | "True" | "False"
    logs,           \* pass-log files present on disk
    out_size,       \* bytes of the compressed output file
    i,              \* loop variable of create_highlight_clips
    clips_created,  \* clips_created (clip numbers i+1)
    clips_ret,      \* "none" | "False" | "list"
    calls,          \* external engine operations, in order
    outcome         \* what main reported

vars == <<pc, input_exists, clips_only, target_size, num_clips, file_duration,
          info, plan, planned, compress_ret, logs, out_size, i, clips_created,
          clips_ret, calls, outcome>>

NoPlan == [total |-> 0, audio |-> 0, video |-> 0]

Call(op, ok, idx, p, ss, t) ==
    [op |-> op, ok |-> ok, idx |-> idx, total |-> p.total, vb |-> p.video,
     ab |-> p.audio, ss |-> ss, t |-> t]

ProbeCall(ok) == Call("probe", ok, 0, NoPlan, RInt(0), RInt(0))

InitLocals ==
    /\ info = "None"
    /\ plan = NoPlan
    /\ planned = "none"
    /\ compress_ret = "none"
    /\ out_size = 0
    /\ i = 0
    /\ clips_created = <<>>
    /\ clips_ret = "none"
    /\ calls = <<>>
    /\ outcome = "none"

\* a run of main()
Init ==
    /\ pc = "main"
    /\ input_exists \in BOOLEAN
    /\ clips_only \in BOOLEAN
    /\ target_size \in TargetSizes
    /\ num_clips = DefaultNumClips
    /\ file_duration \in Durations
    /\ logs \in SUBSET PassLogs
    /\ InitLocals

\* a direct call create_highlight_clips(input, dir, target_size_mb, num_clips)
InitClips ==
    /\ pc = "clips_probe"
    /\ input_exists = TRUE
    /\ clips_only = TRUE
    /\ target_size \in TargetSizes
    /\ num_clips \in 1..MaxClips
    /\ file_duration \in Durations
    /\ logs = {}
    /\ InitLocals

(* ---------------------------------------------------------------------- *)
(* main, lines 154-167: argument parsing, existence check, mode            *)
(* ---------------------------------------------------------------------- *)
MainStart ==
    /\ pc = "main"
    /\ IF ~input_exists
         THEN /\ pc' = "done"
              /\ outcome' = "input_not_found"
         ELSE /\ pc' = EntryPoint(clips_only)
              /\ UNCHANGED outcome
    /\ UNCHANGED <<input_exists, clips_only, target_size, num_clips,
                   file_duration, info, plan, planned, compress_ret, logs,
                   out_size, i, clips_created, clips_ret, calls>>

(* ---------------------------------------------------------------------- *)
(* compress_video_to_target_size                                           *)
(* ---------------------------------------------------------------------- *)
\* lines 33-35: get_video_info; None makes the function return False
CompressProbe ==
    /\ pc = "compress_probe"
    /\ \E ok \in BOOLEAN :
         /\ calls' = Append(calls, ProbeCall(ok))
         /\ IF ok
              THEN /\ info' = [duration |-> file_duration]
                   /\ pc' = "plan"
                   /\ UNCHANGED compress_ret
              ELSE /\ info' = "None"
                   /\ compress_ret' = "False"
                   /\ pc' = "main_check"
    /\ UNCHANGED <<input_exists, clips_only, target_size, num_clips,
                   file_duration, plan, planned, logs, out_size, i,
                   clips_created, clips_ret, outcome>>

\* lines 37-49: bitrates and the quality floor
CompressPlan ==
    /\ pc = "plan"
    /\ LET p == PlanFull(info.duration, target_size)
       IN  /\ plan' = p
           /\ IF TooLow(p.video)
                THEN /\ planned' = "rejected"
                     /\ compress_ret' = "False"
                     /\ pc' = "main_check"
                ELSE /\ planned' = "accepted"
                     /\ pc' = "pass1"
                     /\ UNCHANGED compress_ret
    /\ UNCHANGED <<input_exists, clips_only, target_size, num_clips,
                   file_duration, info, logs, out_size, i, clips_created,
                   clips_ret, calls, outcome>>

\* lines 56-72 (and 97-99 when the encoder raises): pass 1 writes the
\* statistics files; a failing pass may have written any of them
Pass1 ==
    /\ pc = "pass1"
    /\ \E ok \in BOOLEAN :
         /\ calls' = Append(calls, Call("pass1", ok, 0, plan, RInt(0), RInt(0)))
         /\ IF ok
              THEN /\ logs' = PassLogs
                   /\ pc' = "pass2"
                   /\ UNCHANGED compress_ret
              ELSE /\ \E written \in SUBSET PassLogs : logs' = logs \cup written
                   /\ compress_ret' = "False"
                   /\ pc' = "main_check"
    /\ UNCHANGED <<input_exists, clips_only, target_size, num_clips,
                   file_duration, info, plan, planned, out_size, i,
                   clips_created, clips_ret, outcome>>

\* lines 91-93: remove the pass files that exist
CleanUp(files) == files \ PassLogs

\* lines 75-99: pass 2, then the clean up and return True; an encoder
\* exception jumps to the except clause, which returns False
Pass2 ==
    /\ pc = "pass2"
    /\ \E ok \in BOOLEAN :
         /\ calls' = Append(calls, Call("pass2", ok, 0, plan, RInt(0), RInt(0)))
         /\ IF ok
              THEN /\ \E s \in SizeCandidates(target_size) : out_size' = s
                   /\ logs' = CleanUp(logs)
                   /\ compress_ret' = "True"
              ELSE /\ compress_ret' = "False"
                   /\ UNCHANGED <<logs, out_size>>
         /\ pc' = "main_check"
    /\ UNCHANGED <<input_exists, clips_only, target_size, num_clips,
                   file_duration, info, plan, planned, i, clips_created,
                   clips_ret, outcome>>

(* ---------------------------------------------------------------------- *)
(* main, lines 172-182: the result of the compression and the size check   *)
(* ---------------------------------------------------------------------- *)
MainCheck ==
    /\ pc = "main_check"
    /\ pc' = AfterCompress(compress_ret, out_size, target_size)
    /\ outcome' = IF pc' = "done" THEN "compressed" ELSE outcome
    /\ UNCHANGED <<input_exists, clips_only, target_size, num_clips,
                   file_duration, info, plan, planned, compress_ret, logs,
                   out_size, i, clips_created, clips_ret, calls>>

(* ---------------------------------------------------------------------- *)
(* create_highlight_clips                                                  *)
(* ---------------------------------------------------------------------- *)
\* lines 103-110: get_video_info; None makes the function return False
ClipsProbe ==
    /\ pc = "clips_probe"
    /\ \E ok \in BOOLEAN :
         /\ calls' = Append(calls, ProbeCall(ok))
         /\ IF ok
              THEN /\ info' = [duration |-> file_duration]
                   /\ pc' = "clip_loop"
                   /\ UNCHANGED clips_ret
              ELSE /\ info' = "None"
                   /\ clips_ret' = "False"
                   /\ pc' = "report"
    /\ i' = 0
    /\ clips_created' = <<>>
    /\ UNCHANGED <<input_exists, clips_only, target_size, num_clips,
                   file_duration, plan, planned, compress_ret, logs, out_size,
                   outcome>>

\* lines 112-146: one iteration of the loop; after the last one the list
\* is returned
ClipStep ==
    /\ pc = "clip_loop"
    /\ i < num_clips
    /\ \E ok \in BOOLEAN :
         /\ calls' = Append(calls,
                Call("clip", ok, i + 1,
                     PlanClip(info.duration, target_size, num_clips),
                     StartTime(info.duration, num_clips, i),
                     ClipDuration(info.duration, num_clips)))
         /\ clips_created' = IF ok THEN Append(clips_created, i + 1)
                             ELSE clips_created
         /\ IF LoopEnds(ok, i + 1, num_clips)
              THEN /\ pc' = "report"
                   /\ clips_ret' = "list"
              ELSE /\ pc' = "clip_loop"
                   /\ UNCHANGED clips_ret
    /\ i' = i + 1
    /\ UNCHANGED <<input_exists, clips_only, target_size, num_clips,
                   file_duration, info, plan, planned, compress_ret, logs,
                   out_size, outcome>>

(* ---------------------------------------------------------------------- *)
(* main, lines 188-198: the summary                                        *)
(* ---------------------------------------------------------------------- *)
Report ==
    /\ pc = "report"
    /\ outcome' = IF clips_ret = "list" /\ Len(clips_created) > 0
                  THEN "clips" ELSE "no_clips"
    /\ pc' = "done"
    /\ UNCHANGED <<input_exists, clips_only, target_size, num_clips,
                   file_duration, info, plan, planned, compress_ret, logs,
                   out_size, i, clips_created, clips_ret, calls>>

Next ==
    \/ MainStart
    \/ CompressProbe
    \/ CompressPlan
    \/ Pass1
    \/ Pass2
    \/ MainCheck
    \/ ClipsProbe
    \/ ClipStep
    \/ Report

Spec == Init /\ [][Next]_vars

NextClips ==
    \/ ClipsProbe
    \/ ClipStep

ClipSpec == InitClips /\ [][NextClips]_vars

(* ---------------------------------------------------------------------- *)
(* Properties                                                              *)
(* ---------------------------------------------------------------------- *)
Ops(kinds) == {k \in DOMAIN calls : calls[k].op \in kinds}

IsClipCall(c) == c.op = "clip"

ClipCalls == SelectSeq(calls, IsClipCall)

Pass1Ok == \E k \in Ops({"pass1"}) : calls[k].ok

Pass2Ok == \E k \in Ops({"pass2"}) : calls[k].ok

\* the first probe of a run that tries the compression has failed
FirstProbeFailed ==
    /\ ~clips_only
    /\ Len(calls) >= 1
    /\ calls[1].op = "probe"
    /\ ~calls[1].ok

\* the run is in, or has gone through, create_highlight_clips
InFallback == pc \in {"clips_probe", "clip_loop", "report"} \/ clips_ret # "none"

\* C1: whenever Pass2 has been attempted, succeeded or not, neither pass-log
\* file exists once compress_video_to_target_size has returned.
C1_PassLogsRemoved ==
    (Ops({"pass2"}) # {} /\ compress_ret # "none") => logs \cap PassLogs = {}

\* C2 as stated: after a failed probe of a run without --clips-only the run
\* is over: the fallback is never entered and no further engine operation
\* (probe or encoder) happens.
C2_ProbeFailureTerminal ==
    FirstProbeFailed => (~InFallback /\ Len(calls) = 1)

\* C2 amended: after a failed probe of a run without --clips-only there is
\* no planning and no Pass1/Pass2, but main falls back to
\* create_highlight_clips, which probes the input again; only when that
\* second probe fails too does the run end without clip planning and
\* without any encoder invocation.
C2_ProbeFailureFallsBack ==
    FirstProbeFailed =>
        /\ planned = "none"
        /\ Ops({"pass1", "pass2"}) = {}
        /\ outcome # "compressed"
        /\ pc # "main_check" => InFallback
        /\ Len(calls) >= 2 => calls[2].op = "probe"
        /\ (Len(calls) >= 2 /\ ~calls[2].ok) =>
               (Len(calls) = 2 /\ clips_created = <<>>)
        /\ pc = "done" => (Len(calls) >= 2 /\ outcome \in {"clips", "no_clips"})

C2_Witness ==
    /\ FirstProbeFailed
    /\ pc = "done"
    /\ Len(calls) = 2
    /\ ~calls[2].ok
    /\ outcome = "no_clips"

\* C3: planning is rejected exactly when videoBitrate = totalBitrate -
\* audioBitrate is below 200000; after a rejection no pass is invoked and
\* the run goes directly to the clip fallback; after an acceptance Pass1 is
\* invoked.
C3_PlanningFloor ==
    /\ planned # "none" => plan.video = plan.total - plan.audio
    /\ planned = "rejected" =>
          /\ plan.video < 200000
          /\ Ops({"pass1", "pass2"}) = {}
          /\ outcome # "compressed"
          /\ pc = "main_check" \/ InFallback
          /\ Len(calls) >= 2 => calls[2].op = "probe"
    /\ planned = "accepted" =>
          /\ plan.video >= 200000
          /\ pc = "pass1" \/ (Len(calls) >= 2 /\ calls[2].op = "pass1")

C3_Witness ==
    /\ planned = "rejected"
    /\ plan.video = 199999
    /\ pc = "clip_loop"

\* C4: once planning is accepted, the run ends in Done without any clip
\* extraction exactly when both passes succeeded and the output size in MB
\* is <= target * 1.1 (equality accepted); otherwise the fallback is entered.
C4_SizeCheck ==
    LET within == out_size * 10 <= target_size * 11 * BytesPerMB
        good == Pass1Ok /\ Pass2Ok /\ within
    IN  planned = "accepted" =>
          /\ InFallback => ~good
          /\ pc = "done" =>
                /\ outcome = "compressed" <=> good
                /\ outcome = "compressed" => (~InFallback /\ Len(calls) = 3)
                /\ outcome # "compressed" =>
                       (clips_ret # "none" /\ Len(calls) >= 3)

C4_Witness ==
    /\ planned = "accepted"
    /\ outcome = "compressed"
    /\ out_size * 10 = target_size * 11 * BytesPerMB

\* C5 as stated: a run with --clips-only does no probing: its only engine
\* operations are the per-clip encoder invocations.
C5_ClipsOnlyNoProbe ==
    clips_only => \A k \in DOMAIN calls : calls[k].op = "clip"

\* C5 amended: a run with --clips-only does none of Planning, Pass1, Pass2
\* or SizeCheck and goes straight to create_highlight_clips, which itself
\* probes the input once; the engine operations of the run are that one
\* probe followed by the per-clip encoder invocations.
C5_ClipsOnlyOneProbe ==
    clips_only =>
        /\ planned = "none"
        /\ compress_ret = "none"
        /\ pc \notin {"compress_probe", "plan", "pass1", "pass2", "main_check"}
        /\ \A k \in DOMAIN calls :
              calls[k].op = IF k = 1 THEN "probe" ELSE "clip"
        /\ (pc = "done" /\ input_exists) => Len(calls) >= 1

C5_Witness ==
    /\ clips_only
    /\ pc = "done"
    /\ Len(calls) = 1 + num_clips
    /\ calls[1].op = "probe"

\* the bitrate split of a budget: what C6 requires of it
SplitOk(c) ==
    /\ c.ab <= 128000
    /\ c.ab * 10 <= c.total
    /\ c.vb + c.ab = c.total

\* total is the rational budget x truncated to an integer (x >= 0)
IsTruncOf(total, x) ==
    /\ RLe(RInt(total), x)
    /\ RLt(x, RInt(total + 1))

\* C6: for duration > 0 and target size > 0 the split handed to the encoder
\* for the full compression and for each clip has audio <= 128000,
\* audio <= total/10 and video + audio = total, total being the truncated
\* budget (target bits over the duration; per-clip bits over the clip
\* duration).
C6_BitrateSplit ==
    target_size > 0 =>
        \A k \in Ops({"pass1", "pass2", "clip"}) :
            /\ SplitOk(calls[k])
            /\ calls[k].op \in {"pass1", "pass2"} =>
                  IsTruncOf(calls[k].total,
                            RDiv(RInt(target_size * BitsPerMB), file_duration))
            /\ calls[k].op = "clip" =>
                  IsTruncOf(calls[k].total,
                            RDiv(RDiv(RInt(target_size * BitsPerMB), RInt(num_clips)),
                                 calls[k].t))

C6_Witness ==
    /\ target_size > 0
    /\ \E j \in Ops({"pass2"}) : calls[j].ab < 128000 /\ calls[j].vb >= 200000
    /\ \E k \in Ops({"clip"}) : calls[k].ab = 128000

\* C7: after a successful probe create_highlight_clips makes exactly
\* num_clips encoder invocations, for clips 1..num_clips in this order, one
\* after the other; a failed clip does not stop the later ones, and the
\* result is exactly the clips whose invocation succeeded.
C7_ClipBatch ==
    LET n == Len(ClipCalls)
        IsOk(c) == c.ok
        good == SelectSeq(ClipCalls, IsOk)
    IN  /\ \A k \in 1..n : ClipCalls[k].idx = k
        /\ Len(clips_created) = Len(good)
        /\ \A k \in 1..Len(good) : clips_created[k] = good[k].idx
        /\ pc = "clip_loop" => (n = i /\ i < num_clips)
        /\ clips_ret = "list" => n = num_clips
        /\ \A k \in DOMAIN calls :
              (calls[k].op = "clip" /\ k < Len(calls)) => calls[k + 1].op = "clip"

C7_Witness ==
    /\ clips_ret = "list"
    /\ Len(ClipCalls) = 3
    /\ ~ClipCalls[1].ok
    /\ ClipCalls[2].ok
    /\ ~ClipCalls[3].ok
    /\ clips_created = <<2>>

\* C8: with num_clips = 3 the start times of the clips are all >= 0 and
\* strictly increasing in the clip index.
C8_StartTimesIncrease ==
    num_clips = 3 =>
        \A k \in 1..Len(ClipCalls) :
            /\ RLe(RInt(0), ClipCalls[k].ss)
            /\ k > 1 => RLt(ClipCalls[k - 1].ss, ClipCalls[k].ss)

C8_Witness ==
    /\ num_clips = 3
    /\ Len(ClipCalls) = 3
    /\ file_duration = Rat(1, 2)

\* C9 as stated: the centre of clip i (start + half the clip duration) is
\* the midpoint of the i-th of num_clips equal segments of the source.
C9_CentredInSegment ==
    \A k \in 1..Len(ClipCalls) :
        RAdd(ClipCalls[k].ss, RDiv(ClipCalls[k].t, RInt(2)))
          = RDiv(RMul(file_duration, RInt(2 * (k - 1) + 1)), RInt(2 * num_clips))

\* C9 amended: the centre of clip i (start + half the clip duration) is at
\* (i+1) * duration / (num_clips + 1): the centres are the interior
\* boundaries of num_clips + 1 equal slots of the source, and the start is
\* never clamped.
C9_CentredOnSlotBoundary ==
    \A k \in 1..Len(ClipCalls) :
        /\ RAdd(ClipCalls[k].ss, RDiv(ClipCalls[k].t, RInt(2)))
             = RDiv(RMul(file_duration, RInt(k)), RInt(num_clips + 1))
        /\ ClipCalls[k].ss = RawStartTime(file_duration, num_clips, k - 1)

C9_Witness ==
    /\ num_clips = 4
    /\ Len(ClipCalls) = 4
    /\ file_duration = RInt(120)

\* C10: every clip lies inside the source: 0 <= start and
\* start + clipDuration <= duration, with clipDuration =
\* min(30, duration / num_clips).
C10_ClipInsideSource ==
    \A k \in 1..Len(ClipCalls) :
        LET c == ClipCalls[k]
            share == RDiv(file_duration, RInt(num_clips))
        IN  /\ RLe(RInt(0), c.ss)
            /\ RLe(RAdd(c.ss, c.t), file_duration)
            /\ RLe(c.t, RInt(30))
            /\ RLe(c.t, share)
            /\ c.t = RInt(30) \/ c.t = share

C10_Witness ==
    /\ num_clips = 1
    /\ Len(ClipCalls) = 1
    /\ RAdd(ClipCalls[1].ss, ClipCalls[1].t) = file_duration

====
